---- MODULE Spec2Model ----
(***************************************************************************)
(* A model of the Lisp-like interpreter of src/main.rs: the expression and *)
(* value types, the Environment, eval, apply, parse and the read loop.     *)
(*                                                                         *)
(* Spec is a sequence of eval calls on the top-level environment,          *)
(* SpecParse is parse on a token sequence, SpecRepl is the read loop of     *)
(* main on lines, SpecApply is apply called on values of the environment.   *)
(*                                                                         *)
(* Expressions and values are tagged tuples, the tag first:                *)
(*   <<"Number", n>>  <<"Boolean", b>>  <<"Symbol", s>>  <<"List", seq>>   *)
(*   <<"Lambda", params, body>>              (LispExpression::Lambda)      *)
(*   <<"Lambda", params, body, bindings>>    (LispValue::Lambda)           *)
(* A &str that the program inspects (a line, a token) is the sequence of   *)
(* its characters; a String that it only stores, compares and prints (a    *)
(* symbol name, an error message) is a string.  An f64 is the tuple of    *)
(* its bits, see f64_bits.                                                 *)
(* An Environment is its bindings map: a function from names to values.    *)
(* A Result<_, String> is a record: ok, val, err and env, where env is the *)
(* state in which the call leaves the `&mut Environment` it was given.     *)
(***************************************************************************)
EXTENDS Integers, Sequences, FiniteSets, TLC

VARIABLES
    env,    \* the top-level Environment of main (its bindings)
    prev,   \* env before the last operation
    last,   \* the result of the last operation
    input,  \* what the last operation was given
    op,     \* the last operation, or what the read loop printed
    snaps,  \* history: see Snapshots and Defined
    steps,  \* the number of eval and apply calls made
    pc,     \* "running" inside the loop of main, "exited" after break,
            \* "aborted" after a panic or the exhaustion of the stack
    build   \* what line 109 stands for in apply, see Readings

vars == <<env, prev, last, input, op, snaps, steps, pc, build>>

-----------------------------------------------------------------------------
(* Bounds *)

MaxSteps == 3

MaxTokens == 4

MaxListTokens == 3

MaxChunks == 3

MaxArgs == 2

MaxStack == 2

-----------------------------------------------------------------------------
(* LispExpression and LispValue *)

Number(n) == <<"Number", n>>
Boolean(b) == <<"Boolean", b>>
Symbol(s) == <<"Symbol", s>>
List(l) == <<"List", l>>
LambdaExpression(params, body) == <<"Lambda", params, body>>
Lambda(params, body, closure) == <<"Lambda", params, body, closure>>

NoValue == <<"None">>

Ok(value, e) == [ok |-> TRUE, val |-> value, err |-> "", env |-> e]
Err(msg, e) == [ok |-> FALSE, val |-> NoValue, err |-> msg, env |-> e]

-----------------------------------------------------------------------------
(* Environment *)

new == <<>>

get(e, key) == IF key \in DOMAIN e THEN e[key] ELSE NoValue

(* Fault: insert that keeps an earlier binding of the key. *)
set_keep(e, key, value) ==
    [k \in DOMAIN e \cup {key} |-> IF k \in DOMAIN e THEN e[k] ELSE value]

(* Fault: closures share the environment they were made in, so a set also *)
(* shows in the bindings they captured.                                     *)
set_shared(e, key, value) ==
    [k \in DOMAIN e \cup {key} |->
        IF k = key THEN value
        ELSE IF e[k][1] = "Lambda"
        THEN Lambda(e[k][2], e[k][3],
                    [j \in DOMAIN e[k][4] \cup {key} |->
                        IF j = key THEN value ELSE e[k][4][j]])
        ELSE e[k]]

set(e, key, value) ==
    [k \in DOMAIN e \cup {key} |-> IF k = key THEN value ELSE e[k]]

clone(e) == e

-----------------------------------------------------------------------------
(* eval *)

RECURSIVE eval(_, _)

eval_symbol(sym, e) ==
    IF get(e, sym) # NoValue
    THEN Ok(get(e, sym), e)
    ELSE Err("Undefined symbol: " \o sym, e)

(* Lines 65-67: `?` returns the error of the value expression; otherwise  *)
(* the name is set in the environment as the evaluation left it.            *)
define_bind(value, name) ==
    IF value.ok THEN Ok(value.val, set(value.env, name, value.val))
    ELSE value

(* Fault: the name is bound before its value expression is evaluated. *)
eval_define_early(list, e) ==
    IF Len(list) # 3 THEN Err("Invalid define expression", e)
    ELSE IF list[2][1] = "Symbol"
    THEN define_bind(eval(list[3], set(e, list[2][2], Boolean(FALSE))),
                     list[2][2])
    ELSE Err("Invalid variable name in define", e)

eval_define(list, e) ==
    IF Len(list) # 3 THEN Err("Invalid define expression", e)
    ELSE IF list[2][1] = "Symbol"
    THEN define_bind(eval(list[3], e), list[2][2])
    ELSE Err("Invalid variable name in define", e)

param_names(params) == [i \in 1..Len(params) |-> params[i][2]]

(* Fault: the body of a lambda form is evaluated when the closure is made. *)
eager_closure(b, params, body) ==
    IF b.ok THEN Ok(Lambda(param_names(params), body, clone(b.env)), b.env)
    ELSE b

eval_lambda_eager(list, e) ==
    IF Len(list) # 3 THEN Err("Invalid lambda expression", e)
    ELSE IF list[2][1] = "List"
    THEN IF \E i \in 1..Len(list[2][2]) : list[2][2][i][1] # "Symbol"
         THEN Err("Invalid parameter name in lambda", e)
         ELSE eager_closure(eval(list[3], e), list[2][2], list[3])
    ELSE Err("Invalid parameter list in lambda", e)

eval_lambda(list, e) ==
    IF Len(list) # 3 THEN Err("Invalid lambda expression", e)
    ELSE IF list[2][1] = "List"
    THEN IF \E i \in 1..Len(list[2][2]) : list[2][2][i][1] # "Symbol"
         THEN Err("Invalid parameter name in lambda", e)
         ELSE Ok(Lambda(param_names(list[2][2]), list[3], clone(e)), e)
    ELSE Err("Invalid parameter list in lambda", e)


(* Fault: a list with any other head evaluates to the value of its head. *)
eval_other_head(list, e) == eval(list[1], e)

eval_other(list, e) == Err("Invalid expression", e)

(* Fault: a head symbol that the environment binds is no special form. *)
eval_list_shadowed(list, e) ==
    IF list = <<>> THEN Err("Empty list", e)
    ELSE IF list[1][1] = "Symbol" /\ list[1][2] \in DOMAIN e
    THEN eval_other(list, e)
    ELSE IF list[1] = Symbol("define") THEN eval_define(list, e)
    ELSE IF list[1] = Symbol("lambda") THEN eval_lambda(list, e)
    ELSE eval_other(list, e)

eval_list(list, e) ==
    IF list = <<>> THEN Err("Empty list", e)
    ELSE IF list[1] = Symbol("define") THEN eval_define(list, e)
    ELSE IF list[1] = Symbol("lambda") THEN eval_lambda(list, e)
    ELSE eval_other(list, e)

eval(expr, e) ==
    CASE expr[1] = "Number" -> Ok(Number(expr[2]), e)
      [] expr[1] = "Boolean" -> Ok(Boolean(expr[2]), e)
      [] expr[1] = "Symbol" -> eval_symbol(expr[2], e)
      [] expr[1] = "List" -> eval_list(expr[2], e)
      [] expr[1] = "Lambda" -> Err("Lambda cannot be evaluated directly", e)

-----------------------------------------------------------------------------
(* apply.  Nothing in the program calls apply, and line 109,                *)
(*     if let LispExpression::Symbol(name) = *param                         *)
(* matches a String (an element of the closure's Vec<String>) against a     *)
(* pattern of LispExpression, which the compiler rejects: the source does   *)
(* not say which branch of lines 109-121 a parameter takes.  The model      *)
(* takes every reading of the line; build is the one in force:              *)
(*   "param"  name is the parameter: every parameter takes lines 110-112;   *)
(*   "arg"    the pattern is applied to the argument (as the match of lines *)
(*            114-120 is): name is the symbol that the argument is, and an  *)
(*            argument that is no symbol takes lines 114-120;               *)
(*   "none"   a String is no LispExpression::Symbol: every parameter takes  *)
(*            lines 114-120.                                                *)
(* "no_apply" is the program that main runs, in which apply is never        *)
(* reached.  The println! trace lines are not modelled.                     *)

Readings == {"param", "arg", "none"}

(* The name that the pattern of line 109 binds: a sequence of one name, or *)
(* the empty sequence when the pattern does not match.                      *)
symbol_name(param, arg) ==
    CASE build = "param" -> <<param>>
      [] build = "arg" /\ arg[1] = "Symbol" -> <<arg[2]>>
      [] OTHER -> <<>>

RECURSIVE apply_bind(_, _, _, _)

(* Lines 110-111: `?` returns the argument's error; otherwise the value is *)
(* set in new_env and the loop goes on with the next parameter.             *)
bind_value(value, name, params, args, new_env) ==
    IF value.ok
    THEN apply_bind(Tail(params), Tail(args),
                    set(new_env, name, value.val), value.env)
    ELSE value

(* Lines 108-122: Ok holds new_env, and env the caller's environment. *)
apply_bind(params, args, new_env, e) ==
    IF params = <<>> \/ args = <<>> THEN Ok(new_env, e)
    ELSE IF symbol_name(Head(params), Head(args)) # <<>>
    THEN bind_value(eval(Head(args), e),
                    symbol_name(Head(params), Head(args))[1],
                    params, args, new_env)
    ELSE apply_bind(Tail(params), Tail(args), new_env, e)

(* Line 123: the body runs in new_env, which is dropped on return. *)
apply_body(bound, body) ==
    IF bound.ok THEN [eval(body, bound.val) EXCEPT !.env = bound.env]
    ELSE bound

apply(func, args, e) ==
    IF func[1] = "Lambda"
    THEN IF Len(args) # Len(func[2])
         THEN Err("Incorrect number of arguments", e)
         ELSE apply_body(apply_bind(func[2], args, clone(func[4]), e),
                         func[3])
    ELSE Err("Invalid function application", e)

-----------------------------------------------------------------------------
(* str::parse::<f64> (line 146), as the standard library's dec2flt reads a *)
(* token: an optional sign, then a decimal number (digits with at most one  *)
(* point and at least one digit, then an optional exponent e or E with an   *)
(* optional sign and at least one digit), or else one of the words nan, inf *)
(* and infinity in any case.                                                *)
(* The decimal is rounded to the nearest f64, ties to even.                 *)

(* An f64 is its IEEE 754 bits: the sign bit, the 11 exponent bits as a     *)
(* number, and the 52 fraction bits as two numbers of 26 bits, high and     *)
(* low.                                                                     *)
f64_bits(negative, exponent, high, low) == <<negative, exponent, high, low>>

f64_zero(negative) == f64_bits(negative, 0, 0, 0)

INFINITY(negative) == f64_bits(negative, 2047, 0, 0)

NAN(negative) == f64_bits(negative, 2047, 33554432, 0)

None == <<FALSE, 0>>

Some(v) == <<TRUE, v>>

DigitChars == <<"0", "1", "2", "3", "4", "5", "6", "7", "8", "9">>

UpperChars ==
    <<"A", "B", "C", "D", "E", "F", "G", "H", "I", "J", "K", "L", "M",
      "N", "O", "P", "Q", "R", "S", "T", "U", "V", "W", "X", "Y", "Z">>

LowerChars ==
    <<"a", "b", "c", "d", "e", "f", "g", "h", "i", "j", "k", "l", "m",
      "n", "o", "p", "q", "r", "s", "t", "u", "v", "w", "x", "y", "z">>

is_ascii_digit(c) == \E i \in 1..Len(DigitChars) : DigitChars[i] = c

digit_value(c) == (CHOOSE i \in 1..Len(DigitChars) : DigitChars[i] = c) - 1

to_ascii_lowercase(c) ==
    IF \E i \in 1..Len(UpperChars) : UpperChars[i] = c
    THEN LowerChars[CHOOSE i \in 1..Len(UpperChars) : UpperChars[i] = c]
    ELSE c

eq_ignore_case(s, word) ==
    /\ Len(s) = Len(word)
    /\ \A i \in 1..Len(s) : to_ascii_lowercase(s[i]) = word[i]

(* The number of ASCII digits that s starts with *)
count_digits(s) ==
    IF \A i \in 1..Len(s) : is_ascii_digit(s[i]) THEN Len(s)
    ELSE (CHOOSE i \in 1..Len(s) :
            /\ ~is_ascii_digit(s[i])
            /\ \A j \in 1..(i - 1) : is_ascii_digit(s[j])) - 1

(* The exponent digits read left to right; the accumulator stops growing    *)
(* at 0x10000.                                                              *)
RECURSIVE exp_value(_, _)
exp_value(s, acc) ==
    IF s = <<>> THEN acc
    ELSE exp_value(Tail(s),
                   IF acc < 65536 THEN 10 * acc + digit_value(Head(s))
                   ELSE acc)

strip_leading_zeros(d) ==
    IF \A i \in 1..Len(d) : d[i] = 0 THEN <<>>
    ELSE SubSeq(d,
                CHOOSE i \in 1..Len(d) :
                    d[i] # 0 /\ \A j \in 1..(i - 1) : d[j] = 0,
                Len(d))

strip_trailing_zeros(d) ==
    IF \A i \in 1..Len(d) : d[i] = 0 THEN <<>>
    ELSE SubSeq(d, 1,
                CHOOSE i \in 1..Len(d) :
                    d[i] # 0 /\ \A j \in (i + 1)..Len(d) : d[j] = 0)

(* Natural numbers of any size: the sequence of the digits in base 10000,  *)
(* least significant first, the last one not zero; zero is the empty        *)
(* sequence.                                                                *)
Limb == 10000

(* The i-th decimal digit from the right of the number written as digits    *)
(* followed by zeros zeros                                                  *)
digit_from_end(digits, zeros, i) ==
    IF i <= zeros \/ i > zeros + Len(digits) THEN 0
    ELSE digits[Len(digits) + zeros + 1 - i]

(* The sequence f, every place of it computed once *)
places(f) == SubSeq(f, 1, Len(f))

(* digits * 10^zeros, digits without leading zeros and not empty *)
big(digits, zeros) ==
    places([j \in 1..((Len(digits) + zeros + 3) \div 4) |->
                digit_from_end(digits, zeros, 4 * j - 3)
                + 10 * digit_from_end(digits, zeros, 4 * j - 2)
                + 100 * digit_from_end(digits, zeros, 4 * j - 1)
                + 1000 * digit_from_end(digits, zeros, 4 * j)])

big_gt(a, b) ==
    \/ Len(a) > Len(b)
    \/ /\ Len(a) = Len(b)
       /\ \E i \in 1..Len(a) :
            /\ a[i] > b[i]
            /\ \A j \in (i + 1)..Len(a) : a[j] = b[j]

big_ge(a, b) == ~big_gt(b, a)

digit_at(d, i) == IF i <= Len(d) THEN d[i] ELSE 0

(* What the places below k carry into place k, each s[j] being less than    *)
(* 2 * Limb: a place of Limb or more carries, a place of Limb - 1 passes a  *)
(* carry on.                                                                *)
carry(s, k) ==
    IF \E j \in 1..(k - 1) :
         /\ s[j] >= Limb
         /\ \A l \in (j + 1)..(k - 1) : s[l] = Limb - 1
    THEN 1 ELSE 0

carried(s) ==
    strip_trailing_zeros(
        places([k \in 1..Len(s) |-> (s[k] + carry(s, k)) % Limb]))

(* a * m, for 0 < m <= 8192: place k holds the low part of a[k] * m and     *)
(* the high part of a[k - 1] * m                                            *)
big_mul(a, m) ==
    carried(places([k \in 1..(Len(a) + 1) |->
                        ((digit_at(a, k) * m) % Limb)
                        + (IF k > 1 THEN (a[k - 1] * m) \div Limb ELSE 0)]))

(* What place k lends to the places below it in a - b *)
borrow(a, b, k) ==
    IF \E j \in 1..(k - 1) :
         /\ a[j] < digit_at(b, j)
         /\ \A l \in (j + 1)..(k - 1) : a[l] = digit_at(b, l)
    THEN 1 ELSE 0

(* a - b, for a >= b *)
big_sub(a, b) ==
    strip_trailing_zeros(
        places([k \in 1..Len(a) |->
                    (a[k] - digit_at(b, k) - borrow(a, b, k) + Limb) % Limb]))

(* a * 2^k *)
RECURSIVE shift(_, _)
shift(a, k) ==
    IF k > 13 THEN shift(big_mul(a, 8192), k - 13) ELSE big_mul(a, 2 ^ k)

(* The steps of the scaling, in bits *)
smaller(k) == IF k = 52 THEN 13 ELSE 1

(* s is <<x, y, e>> with x / y = v / 2^e for the number v read, x and y    *)
(* not zero.  halve raises e until x / y < 2, and double lowers it until    *)
(* 1 <= x / y or e is -1022, the exponent of the subnormal numbers; both    *)
(* go k bits at a time while that does not pass the end.                    *)
RECURSIVE halve(_, _)

(* y2 is y * 2^k *)
halve_step(s, y2, k) ==
    IF big_ge(s[1], y2) THEN halve(<<s[1], y2, s[3] + k>>, k)
    ELSE halve(s, smaller(k))

halve(s, k) ==
    IF big_gt(big_mul(s[2], 2), s[1]) THEN s
    ELSE halve_step(s, shift(s[2], k), k)

RECURSIVE double(_, _)

(* x2 is x * 2^(k - 1) *)
double_step(s, x2, k) ==
    IF s[3] - k >= -1022 /\ big_gt(s[2], x2)
    THEN double(<<big_mul(x2, 2), s[2], s[3] - k>>, k)
    ELSE double(s, smaller(k))

double(s, k) ==
    IF s[3] = -1022 \/ big_ge(s[1], s[2]) THEN s
    ELSE double_step(s, shift(s[1], k - 1), k)

scaled(x, y) == double(halve(<<x, y, 0>>, 52), 52)

(* One more bit of rem / y < 1 at the end of q, rem2 being 2 * rem *)
bit_of(rem2, q, y) ==
    IF big_ge(rem2, y) THEN <<big_sub(rem2, y), 2 * q + 1>>
    ELSE <<rem2, 2 * q>>

(* f is <<rem, q>> *)
next_bit(f, y) == bit_of(big_mul(f[1], 2), f[2], y)

(* n more bits *)
RECURSIVE quotient_bits(_, _, _)
quotient_bits(f, y, n) ==
    IF n = 0 THEN f
    ELSE IF f[1] = <<>> THEN <<f[1], f[2] * 2 ^ n>>
    ELSE quotient_bits(next_bit(f, y), y, n - 1)

with_low(h, l) == <<h[2], l[2], l[1]>>

low_bits(h, y) == with_low(h, quotient_bits(<<h[1], 0>>, y, 26))

(* The 52 fraction bits of rem / y < 1, 26 in high and 26 in low, and what  *)
(* is left of rem.                                                          *)
fraction_bits(rem, y) == low_bits(quotient_bits(<<rem, 0>>, y, 26), y)

(* The bits of the number with the leading bit lead (0 in a subnormal       *)
(* number), the exponent e and the fraction bits high and low.              *)
assemble(lead, e, high, low, negative) ==
    IF lead = 0 THEN f64_bits(negative, 0, high, low)
    ELSE IF e + 1023 >= 2047 THEN INFINITY(negative)
    ELSE f64_bits(negative, e + 1023, high, low)

round_up(lead, e, high, low, negative) ==
    IF low + 1 < 2 ^ 26 THEN assemble(lead, e, high, low + 1, negative)
    ELSE IF high + 1 < 2 ^ 26 THEN assemble(lead, e, high + 1, 0, negative)
    ELSE IF lead = 0 THEN assemble(1, e, 0, 0, negative)
    ELSE assemble(1, e + 1, 0, 0, negative)

(* Round to nearest, ties to even, on what the 53 bits leave of x / y *)
rounded(lead, e, bits, rem2, y, negative) ==
    IF big_gt(rem2, y) \/ (rem2 = y /\ bits[2] % 2 = 1)
    THEN round_up(lead, e, bits[1], bits[2], negative)
    ELSE assemble(lead, e, bits[1], bits[2], negative)

with_fraction(lead, e, bits, y, negative) ==
    rounded(lead, e, bits, big_mul(bits[3], 2), y, negative)

nearest_scaled(x, y, e, negative) ==
    IF big_ge(x, y)
    THEN with_fraction(1, e, fraction_bits(big_sub(x, y), y), y, negative)
    ELSE with_fraction(0, e, fraction_bits(x, y), y, negative)

nearest_from(s, negative) == nearest_scaled(s[1], s[2], s[3], negative)

(* The f64 nearest to x / y *)
nearest(x, y, negative) == nearest_from(scaled(x, y), negative)

(* The f64 nearest to d * 10^exp, d without zeros at its ends, not empty:   *)
(* 10^309 and more is infinity and less than 10^-324 is zero.               *)
round_decimal(d, exp, negative) ==
    IF exp + Len(d) - 1 > 308 THEN INFINITY(negative)
    ELSE IF exp + Len(d) - 1 < -324 THEN f64_zero(negative)
    ELSE IF exp >= 0 THEN nearest(big(d, exp), big(<<1>>, 0), negative)
    ELSE nearest(big(d, 0), big(<<1>>, 0 - exp), negative)

normalized(d, digits, exp, negative) ==
    IF d = <<>> THEN f64_zero(negative)
    ELSE round_decimal(d, exp + (Len(digits) - Len(d)), negative)

(* The f64 of the decimal digits * 10^exp, digits without leading zeros *)
decimal(digits, exp, negative) ==
    normalized(strip_trailing_zeros(digits), digits, exp, negative)

digit_values(s) == [i \in 1..Len(s) |-> digit_value(s[i])]

(* The exponent after e: an optional sign and digits up to the end *)
parse_scientific(mantissa, fraction_len, s, negative) ==
    LET digits == IF s # <<>> /\ Head(s) \in {"-", "+"} THEN Tail(s) ELSE s
    IN  IF digits # <<>> /\ count_digits(digits) = Len(digits)
        THEN Some(decimal(mantissa,
                          (IF Head(s) = "-" THEN 0 - exp_value(digits, 0)
                           ELSE exp_value(digits, 0)) - fraction_len,
                          negative))
        ELSE None

(* s holds fraction_len fraction digits and what follows them *)
parse_exponent(integer, s, fraction_len, negative) ==
    IF Len(integer) + fraction_len = 0 THEN None
    ELSE IF Len(s) = fraction_len
    THEN Some(decimal(
            strip_leading_zeros(digit_values(integer \o s)),
            0 - fraction_len, negative))
    ELSE IF to_ascii_lowercase(s[fraction_len + 1]) = "e"
    THEN parse_scientific(
            strip_leading_zeros(
                digit_values(integer \o SubSeq(s, 1, fraction_len))),
            fraction_len, SubSeq(s, fraction_len + 2, Len(s)), negative)
    ELSE None

(* s is what follows the integer digits *)
parse_fraction(integer, s, negative) ==
    IF s # <<>> /\ Head(s) = "."
    THEN parse_exponent(integer, Tail(s), count_digits(Tail(s)), negative)
    ELSE parse_exponent(integer, s, 0, negative)

integer_part(s, n, negative) ==
    parse_fraction(SubSeq(s, 1, n), SubSeq(s, n + 1, Len(s)), negative)

parse_number(s, negative) == integer_part(s, count_digits(s), negative)

parse_inf_nan(s, negative) ==
    IF eq_ignore_case(s, <<"n", "a", "n">>) THEN Some(NAN(negative))
    ELSE IF \/ eq_ignore_case(s, <<"i", "n", "f">>)
            \/ eq_ignore_case(s, <<"i", "n", "f", "i", "n", "i", "t", "y">>)
    THEN Some(INFINITY(negative))
    ELSE None

number_or_inf_nan(num, s, negative) ==
    IF num[1] THEN num ELSE parse_inf_nan(s, negative)

unsigned(s, negative) ==
    IF s = <<>> THEN None
    ELSE number_or_inf_nan(parse_number(s, negative), s, negative)

parse_f64(token) ==
    IF token = <<>> THEN None
    ELSE unsigned(IF Head(token) \in {"-", "+"} THEN Tail(token) ELSE token,
                  Head(token) = "-")

-----------------------------------------------------------------------------
(* parse.  A token is the sequence of its characters; a parse result        *)
(* carries the tokens the iterator has not consumed (rest).                 *)

POk(expr, rest) == [ok |-> TRUE, val |-> expr, err |-> "", rest |-> rest]
PErr(msg, rest) == [ok |-> FALSE, val |-> NoValue, err |-> msg, rest |-> rest]

RECURSIVE to_string(_)
to_string(s) ==
    IF s = <<>> THEN "" ELSE Head(s) \o to_string(Tail(s))

RECURSIVE parse_list_from(_, _)
RECURSIVE parse_list(_)

number_or_symbol(num, token, rest) ==
    IF num[1] THEN POk(Number(num[2]), rest)
    ELSE POk(Symbol(to_string(token)), rest)

parse_tokens(tokens) ==
    IF tokens = <<>> THEN PErr("Unexpected end of input", <<>>)
    ELSE CASE Head(tokens) = <<"(">> -> parse_list(Tail(tokens))
           [] Head(tokens) = <<")">> -> PErr("Unexpected ')'", Tail(tokens))
           [] Head(tokens) = <<"t", "r", "u", "e">> ->
                POk(Boolean(TRUE), Tail(tokens))
           [] Head(tokens) = <<"f", "a", "l", "s", "e">> ->
                POk(Boolean(FALSE), Tail(tokens))
           [] OTHER -> number_or_symbol(parse_f64(Head(tokens)),
                                        Head(tokens), Tail(tokens))

(* Lines 166-167 and 171-172: `?` returns the error; otherwise the         *)
(* expression is pushed and the loop goes on with the tokens left.          *)
list_push(expr, rest, list) ==
    IF expr.ok THEN parse_list_from(rest, Append(list, expr.val))
    ELSE [expr EXCEPT !.rest = rest]

sub_list_push(sub_expr, list) ==
    list_push(sub_expr, sub_expr.rest, list)

(* Fault: the end of the input closes the open list. *)
parse_list_autoclose(tokens, list) ==
    IF tokens = <<>> THEN POk(List(list), <<>>)
    ELSE CASE Head(tokens) = <<"(">> ->
                sub_list_push(parse_list(Tail(tokens)), list)
           [] Head(tokens) = <<")">> -> POk(List(list), Tail(tokens))
           [] OTHER ->
                list_push(parse_tokens(<<Head(tokens)>>), Tail(tokens), list)

(* The loop of parse_list, list being the expressions pushed so far. *)
parse_list_from(tokens, list) ==
    IF tokens = <<>>
    THEN PErr("Unexpected end of input inside list", <<>>)
    ELSE CASE Head(tokens) = <<"(">> ->
                sub_list_push(parse_list(Tail(tokens)), list)
           [] Head(tokens) = <<")">> -> POk(List(list), Tail(tokens))
           [] OTHER ->
                list_push(parse_tokens(<<Head(tokens)>>), Tail(tokens), list)

(* Line 156: the list starts empty. *)
parse_list(tokens) == parse_list_from(tokens, <<>>)

parse(tokens) == parse_tokens(tokens)

(* The deepest nesting of the calls of parse_list that parse makes on       *)
(* tokens, depth of them being under way: parse_tokens calls parse_list on  *)
(* "(" (line 141) and reads nothing after any other token, parse_list       *)
(* calls itself on "(" (line 166) and returns on ")" (line 169).  eval      *)
(* (line 65) recurses on the lists these calls built, no deeper than they   *)
(* nest.                                                                    *)
RECURSIVE nested_calls(_, _, _)
nested_calls(tokens, depth, deepest) ==
    IF tokens = <<>> THEN deepest
    ELSE IF Head(tokens) = <<"(">>
    THEN nested_calls(Tail(tokens), depth + 1,
                      IF depth + 1 > deepest THEN depth + 1 ELSE deepest)
    ELSE IF depth = 0 THEN deepest
    ELSE IF Head(tokens) = <<")">>
    THEN (IF depth = 1 THEN deepest
          ELSE nested_calls(Tail(tokens), depth - 1, deepest))
    ELSE nested_calls(Tail(tokens), depth, deepest)

recursion(tokens) == nested_calls(tokens, 0, 0)

-----------------------------------------------------------------------------
(* main: one iteration of the read loop on the line read, a sequence of     *)
(* characters.                                                              *)

(* A character is a string: the character itself or, for a character that *)
(* no string of a module can hold (U+2000 and above), its code point        *)
(* written as in "U+2000".                                                  *)

(* char::is_whitespace: the 25 characters with the property White_Space.   *)
(* The four after "\r" are U+000B, U+0085, U+00A0 and U+1680.               *)
WhitespaceChars ==
    {" ", "\t", "\n", "\f", "\r", "", "", " ", " ",
     "U+2000", "U+2001", "U+2002", "U+2003",
     "U+2004", "U+2005", "U+2006", "U+2007",
     "U+2008", "U+2009", "U+200A", "U+2028",
     "U+2029", "U+202F", "U+205F", "U+3000"}

IsWhitespace(c) == c \in WhitespaceChars

RECURSIVE trim_start(_)
trim_start(line) ==
    IF line # <<>> /\ IsWhitespace(Head(line)) THEN trim_start(Tail(line))
    ELSE line

RECURSIVE trim_end(_)
trim_end(line) ==
    IF line # <<>> /\ IsWhitespace(line[Len(line)])
    THEN trim_end(SubSeq(line, 1, Len(line) - 1))
    ELSE line

trim(line) == trim_end(trim_start(line))

(* split_whitespace: the maximal runs of characters that are not white      *)
(* space.                                                                   *)
RECURSIVE split_from(_, _, _)
split_from(line, word, tokens) ==
    IF line = <<>>
    THEN (IF word = <<>> THEN tokens ELSE Append(tokens, word))
    ELSE IF IsWhitespace(Head(line))
    THEN split_from(Tail(line), <<>>,
                    IF word = <<>> THEN tokens ELSE Append(tokens, word))
    ELSE split_from(Tail(line), Append(word, Head(line)), tokens)

split_whitespace(line) == split_from(line, <<>>, <<>>)

print_value(r) ==
    [pc |-> "running", out |-> IF r.ok THEN "value" ELSE "eval_error",
     res |-> r]

(* Lines 194-200 *)
eval_parsed(parsed, e) ==
    IF parsed.ok THEN print_value(eval(parsed.val, e))
    ELSE [pc |-> "running", out |-> "parse_error",
          res |-> Err(parsed.err, e)]

(* Lines 187-193 *)
read_trimmed(trimmed_input, e) ==
    IF trimmed_input = <<"e", "x", "i", "t">>
    THEN [pc |-> "exited", out |-> "exit", res |-> Err("", e)]
    ELSE eval_parsed(parse(split_whitespace(trimmed_input)), e)

(* One iteration of the loop of main on the line read. *)
main(line, e) == read_trimmed(trim(line), e)

-----------------------------------------------------------------------------
(* The expressions given to eval: what parse can build from a line of the   *)
(* forms below (numbers, booleans, symbols and nested lists).               *)

(* The number that the one-digit token n is read as, n in 1..9 *)
Num(n) == Number(decimal(<<n>>, 0, FALSE))

DefineForm(name, value) ==
    List(<<Symbol("define"), Symbol(name), value>>)

LambdaForm(params, body) == List(<<Symbol("lambda"), params, body>>)

Atoms ==
    {Num(1), Num(2), Boolean(TRUE), Symbol("x"), Symbol("y"),
     Symbol("f"), Symbol("define"), Symbol("lambda")}

ParamLists ==
    {List(<<>>), List(<<Symbol("x")>>), List(<<Symbol("x"), Symbol("f")>>)}

BadParamLists ==
    {Symbol("x"), List(<<Num(1)>>), List(<<Symbol("x"), List(<<>>)>>)}

Bodies ==
    {Symbol("x"), Symbol("y"), Num(1), List(<<>>),
     DefineForm("x", Num(2)), List(<<Symbol("f"), Num(1)>>)}

LambdaForms ==
    {LambdaForm(p, b) : p \in ParamLists \cup BadParamLists, b \in Bodies}
    \cup {List(<<Symbol("lambda")>>),
          List(<<Symbol("lambda"), List(<<Symbol("x")>>)>>),
          List(<<Symbol("lambda"), List(<<Symbol("x")>>), Symbol("x"),
                 Symbol("x")>>)}

OtherLists ==
    {List(<<>>),
     List(<<Symbol("f"), Num(1)>>),
     List(<<Symbol("f")>>),
     List(<<Symbol("x")>>),
     List(<<Symbol("y"), Symbol("x")>>),
     List(<<Num(1), Num(2)>>),
     List(<<Boolean(TRUE)>>),
     List(<<List(<<>>)>>),
     List(<<LambdaForm(List(<<Symbol("x")>>), Symbol("x")), Num(1)>>),
     List(<<DefineForm("x", Num(1)), Num(1)>>)}

BadDefines ==
    {List(<<Symbol("define")>>),
     List(<<Symbol("define"), Symbol("x")>>),
     List(<<Symbol("define"), Symbol("x"), Num(1), Num(2)>>),
     List(<<Symbol("define"), Num(1), Num(2)>>),
     List(<<Symbol("define"), List(<<Symbol("x")>>), Num(1)>>)}

DefineValues ==
    {Num(1), Num(2), Symbol("x"), Symbol("f"), Symbol("y"),
     List(<<>>), List(<<Symbol("f"), Num(1)>>),
     List(<<Symbol("define"), Symbol("x")>>),
     LambdaForm(List(<<Symbol("x")>>), Symbol("x")),
     LambdaForm(List(<<Num(1)>>), Symbol("x"))}

Defines == {DefineForm(n, e) : n \in {"x", "f"}, e \in DefineValues}

KeywordDefines == {DefineForm(n, Num(1)) : n \in {"define", "lambda"}}

NestedDefines == {DefineForm("y", d) : d \in Defines}

(* The expressions given to eval in Spec *)
Exprs ==
    Atoms \cup LambdaForms \cup OtherLists \cup BadDefines \cup Defines
    \cup KeywordDefines \cup NestedDefines

(* The expressions given to eval, and the argument expressions given to    *)
(* apply, in SpecApply                                                      *)
ApplyDefines ==
    {DefineForm("x", Num(1)), DefineForm("x", Num(2))}
    \cup {DefineForm("f", e) :
            e \in {LambdaForm(List(<<Symbol("x")>>), Symbol("x")),
                   LambdaForm(List(<<Symbol("y")>>), Symbol("x")),
                   LambdaForm(List(<<Symbol("x"), Symbol("x")>>),
                              Symbol("x")),
                   LambdaForm(List(<<>>), DefineForm("x", Num(2))),
                   LambdaForm(List(<<Symbol("y")>>),
                              DefineForm("z", Symbol("y"))),
                   LambdaForm(List(<<Symbol("y")>>), List(<<>>))}}

ArgExprs ==
    {Num(1), Symbol("x"), Symbol("z"), DefineForm("z", Num(2))}

(* The tokens of an expression, and the check that parse builds each of the *)
(* expressions above from its tokens.                                       *)
Spelling ==
    [x |-> <<"x">>, y |-> <<"y">>, z |-> <<"z">>, f |-> <<"f">>,
     define |-> <<"d", "e", "f", "i", "n", "e">>,
     lambda |-> <<"l", "a", "m", "b", "d", "a">>]

NumberToken(n) ==
    <<DigitChars[(CHOOSE d \in 1..9 : decimal(<<d>>, 0, FALSE) = n) + 1]>>

RECURSIVE Unparse(_)
RECURSIVE UnparseAll(_)
UnparseAll(l) ==
    IF l = <<>> THEN <<>> ELSE Unparse(Head(l)) \o UnparseAll(Tail(l))

Unparse(expr) ==
    CASE expr[1] = "Number" -> <<NumberToken(expr[2])>>
      [] expr[1] = "Boolean" ->
            <<IF expr[2] THEN <<"t", "r", "u", "e">>
              ELSE <<"f", "a", "l", "s", "e">>>>
      [] expr[1] = "Symbol" -> <<Spelling[expr[2]]>>
      [] expr[1] = "List" -> <<<<"(">>>> \o UnparseAll(expr[2]) \o <<<<")">>>>

InputsParse ==
    \A expr \in Exprs \cup ApplyDefines \cup ArgExprs :
        parse(Unparse(expr)) = POk(expr, <<>>)

-----------------------------------------------------------------------------
(* Syntactic helpers used to state the properties *)

IsList(expr) == expr[1] = "List"

IsDefineList(expr) ==
    IsList(expr) /\ expr[2] # <<>> /\ expr[2][1] = Symbol("define")

IsLambdaList(expr) ==
    IsList(expr) /\ expr[2] # <<>> /\ expr[2][1] = Symbol("lambda")

WellFormedDefine(expr) ==
    IsDefineList(expr) /\ Len(expr[2]) = 3 /\ expr[2][2][1] = "Symbol"

WellFormedLambda(expr) ==
    /\ IsLambdaList(expr)
    /\ Len(expr[2]) = 3
    /\ expr[2][2][1] = "List"
    /\ \A i \in 1..Len(expr[2][2][2]) : expr[2][2][2][i][1] = "Symbol"

RECURSIVE ChainNames(_)
ChainNames(expr) ==
    IF WellFormedDefine(expr)
    THEN {expr[2][2][2]} \cup ChainNames(expr[2][3])
    ELSE {}

RECURSIVE Core(_)
Core(expr) == IF WellFormedDefine(expr) THEN Core(expr[2][3]) ELSE expr

SameBinding(a, b, name) == get(a, name) = get(b, name)

-----------------------------------------------------------------------------
(* History: for every name bound to a closure, the environment in which the *)
(* lambda form that produced the closure was evaluated.  In a successful    *)
(* chain of defines the innermost value expression is evaluated first, in   *)
(* the environment the call was given.                                      *)

Snapshots(expr, r, e, s) ==
    IF ~r.ok THEN s
    ELSE LET chain == ChainNames(expr)
             core == Core(expr)
             fresh == WellFormedLambda(core)
             copied == core[1] = "Symbol" /\ core[2] \in DOMAIN s
             names == (DOMAIN s \ chain)
                        \cup (IF fresh \/ copied THEN chain ELSE {})
         IN  [n \in names |->
                IF n \in chain
                THEN (IF fresh THEN e ELSE s[core[2]])
                ELSE s[n]]

-----------------------------------------------------------------------------
(* Spec: a sequence of eval calls on the one top-level environment *)

NoResult == Err("", new)

Init ==
    /\ env = new
    /\ prev = new
    /\ last = NoResult
    /\ input = <<>>
    /\ op = "init"
    /\ snaps = <<>>
    /\ steps = 0
    /\ pc = "running"
    /\ build = "no_apply"

EvalStep ==
    /\ steps < MaxSteps
    /\ \E expr \in Exprs :
        LET r == eval(expr, env)
        IN  /\ env' = r.env
            /\ prev' = env
            /\ last' = r
            /\ input' = expr
            /\ op' = "eval"
            /\ snaps' = Snapshots(expr, r, env, snaps)
            /\ steps' = steps + 1
            /\ pc' = pc
            /\ build' = build

Next == EvalStep

Spec == Init /\ [][Next]_vars

-----------------------------------------------------------------------------
(* SpecParse: parse applied to every token sequence of at most MaxTokens    *)
(* tokens.                                                                  *)

Tokens == {<<"(">>, <<")">>, <<"x">>, <<"1">>, <<"t", "r", "u", "e">>}

SeqsUpTo(S, n) == UNION {[1..k -> S] : k \in 0..n}

InitParse ==
    /\ env = new
    /\ prev = new
    /\ last = PErr("", <<>>)
    /\ input \in SeqsUpTo(Tokens, MaxTokens)
    /\ op = "init"
    /\ snaps = <<>>
    /\ steps = 0
    /\ pc = "running"
    /\ build = "no_apply"

ParseStep ==
    /\ op = "init"
    /\ last' = parse(input)
    /\ op' = "parse"
    /\ UNCHANGED <<env, prev, input, snaps, steps, pc, build>>

NextParse == ParseStep

SpecParse == InitParse /\ [][NextParse]_vars

-----------------------------------------------------------------------------
(* SpecRepl: the read loop of main.  The lines read are "( define"          *)
(* followed by at most MaxListTokens tokens, one space between tokens, and  *)
(* every sequence of at most MaxChunks chunks, each with the newline that   *)
(* read_line keeps, and the empty line that read_line gives at the end of   *)
(* the input.  snaps records the bindings that the successful define lines  *)
(* have made so far, and input whether the line read was the word exit with *)
(* nothing but white space around it.                                       *)
(* What the process is given decides how an iteration goes on: whether the  *)
(* writes to stdout and stderr and the read of stdin succeed, and how many  *)
(* nested calls its stack has room for.  A failed write or read is a panic  *)
(* (print!, println! and eprintln! panic on a failed write, unwrap on Err), *)
(* a stack too small is the end of the process; both leave pc "aborted".    *)

LineTokens ==
    {<<"(">>, <<")">>, <<"d", "e", "f", "i", "n", "e">>, <<"x">>, <<"1">>}

Chunks ==
    {<<" ">>, <<"U+3000">>, <<"e", "x", "i", "t">>, <<"1">>, <<"x">>}

(* The nested calls of parse_list and eval that the stack has room for: as *)
(* many as the process was given, here at least one and at most MaxStack,   *)
(* or more than any line of Lines needs.                                    *)
StackSizes == 1..MaxStack

RECURSIVE Spaced(_)
Spaced(tokens) ==
    IF tokens = <<>> THEN <<>>
    ELSE IF Len(tokens) = 1 THEN Head(tokens)
    ELSE Head(tokens) \o <<" ">> \o Spaced(Tail(tokens))

RECURSIVE Flat(_)
Flat(chunks) ==
    IF chunks = <<>> THEN <<>> ELSE Head(chunks) \o Flat(Tail(chunks))

Lines ==
    {Spaced(<<<<"(">>, <<"d", "e", "f", "i", "n", "e">>>> \o t) \o <<"\n">> :
        t \in SeqsUpTo(LineTokens, MaxListTokens)}
    \cup {Flat(c) \o <<"\n">> : c \in SeqsUpTo(Chunks, MaxChunks)}
    \cup {<<>>}

IsExitLine(line) ==
    \E i \in 1..(Len(line) - 3) :
        /\ line[i] = "e" /\ line[i + 1] = "x"
        /\ line[i + 2] = "i" /\ line[i + 3] = "t"
        /\ \A j \in 1..Len(line) :
                (j < i \/ j > i + 3) => line[j] \in WhitespaceChars

Defined(expr, r, s) ==
    IF ~r.ok THEN s
    ELSE [n \in DOMAIN s \cup ChainNames(expr) |->
            IF n \in ChainNames(expr) THEN r.val ELSE s[n]]

InitRepl ==
    /\ env = new
    /\ prev = new
    /\ last = NoResult
    /\ input = [exit |-> FALSE]
    /\ op = "init"
    /\ snaps = <<>>
    /\ steps = 0
    /\ pc = "running"
    /\ build = "no_apply"

(* Lines 187-200 on the line read; printed: the write of line 196, 197 or   *)
(* 199 succeeded (the exit line writes nothing).                            *)
Iterate(it, expr, line, printed) ==
    /\ printed \/ it.out # "exit"
    /\ pc' = IF printed THEN it.pc ELSE "aborted"
    /\ op' = it.out
    /\ last' = it.res
    /\ env' = it.res.env
    /\ prev' = env
    /\ input' = [exit |-> IsExitLine(line)]
    /\ snaps' = IF it.out = "value" THEN Defined(expr, it.res, snaps)
                ELSE snaps
    /\ steps' = steps
    /\ build' = build

(* The process ends before the line read has changed env. *)
Abort(kind) ==
    /\ pc' = "aborted"
    /\ op' = kind
    /\ input' = [exit |-> FALSE]
    /\ UNCHANGED <<env, prev, last, snaps, steps, build>>

(* Lines 181-182: the prompt cannot be written, print! or unwrap panics. *)
PromptFails ==
    /\ pc = "running"
    /\ Abort("prompt_failed")

(* Line 185: read_line gives Err (the read fails, or the bytes read are    *)
(* not UTF-8) and unwrap panics.                                            *)
ReadFails ==
    /\ pc = "running"
    /\ Abort("read_failed")

(* Lines 194-195: the line nests deeper than the stack has room for. *)
StackOverflows ==
    /\ pc = "running"
    /\ \E line \in Lines, size \in StackSizes :
        /\ trim(line) # <<"e", "x", "i", "t">>
        /\ recursion(split_whitespace(trim(line))) > size
        /\ Abort("stack_overflow")

(* Lines 196-199: the line is read, parsed and evaluated, and the write of *)
(* the value or of the error message fails: println! or eprintln! panics.   *)
PrintFails ==
    /\ pc = "running"
    /\ \E line \in Lines :
        Iterate(main(line, env), parse(split_whitespace(line)).val, line,
                FALSE)

(* One iteration in which every write and the read succeed and the stack   *)
(* has room.                                                                *)
ReadLine ==
    /\ pc = "running"
    /\ \E line \in Lines :
        Iterate(main(line, env), parse(split_whitespace(line)).val, line,
                TRUE)

NextRepl ==
    \/ ReadLine
    \/ PromptFails
    \/ ReadFails
    \/ StackOverflows
    \/ PrintFails

SpecRepl == InitRepl /\ [][NextRepl]_vars

-----------------------------------------------------------------------------
(* SpecApply: apply called as line 101 declares it.  eval builds the        *)
(* caller's environment, and apply is given a value taken from it (a clone  *)
(* of the binding, as apply borrows func) with argument expressions, the    *)
(* caller's environment being env.  build is chosen at the start, among the *)
(* readings of line 109, and stays.                                         *)

InitApply ==
    /\ env = new
    /\ prev = new
    /\ last = NoResult
    /\ input = <<>>
    /\ op = "init"
    /\ snaps = <<>>
    /\ steps = 0
    /\ pc = "running"
    /\ build \in Readings

ApplyEvalStep ==
    /\ steps < MaxSteps
    /\ \E expr \in ApplyDefines :
        LET r == eval(expr, env)
        IN  /\ env' = r.env
            /\ prev' = env
            /\ last' = r
            /\ input' = expr
            /\ op' = "eval"
            /\ snaps' = snaps
            /\ steps' = steps + 1
            /\ pc' = pc
            /\ build' = build

ApplyStep ==
    /\ steps < MaxSteps
    /\ \E name \in DOMAIN env, args \in SeqsUpTo(ArgExprs, MaxArgs) :
        LET func == get(env, name)
            r == apply(func, args, env)
        IN  /\ env' = r.env
            /\ prev' = env
            /\ last' = r
            /\ input' = <<func, args>>
            /\ op' = "apply"
            /\ snaps' = snaps
            /\ steps' = steps + 1
            /\ pc' = pc
            /\ build' = build

NextApply == ApplyEvalStep \/ ApplyStep

SpecApply == InitApply /\ [][NextApply]_vars

-----------------------------------------------------------------------------
(* Properties.  In a state reached by an eval step (op = "eval"), input is  *)
(* the expression evaluated, prev the environment before the call, env the  *)
(* environment after it and last the result.                                *)

Names(a, b) == DOMAIN a \cup DOMAIN b

DefineName(expr) == expr[2][2][2]

DefineValue(expr) == expr[2][3]

LambdaBody(expr) == expr[2][3]

(* C1 as stated: a successful (define n e) returns the value v of e, binds  *)
(* n to v overwriting any earlier binding, leaves every other name as it    *)
(* was before the call, and Symbol(n) then evaluates to v.                  *)
C1_AsStated ==
    (op = "eval" /\ WellFormedDefine(input) /\ last.ok) =>
        /\ last.val = eval(DefineValue(input), prev).val
        /\ get(env, DefineName(input)) = last.val
        /\ \A m \in Names(env, prev) \ {DefineName(input)} :
                SameBinding(env, prev, m)
        /\ eval(Symbol(DefineName(input)), env) = Ok(last.val, env)

(* C1, amended: a successful (define n e) returns the value v of e and      *)
(* leaves the environment as the evaluation of e left it except that n is   *)
(* bound to v, overwriting any earlier binding; every name that no define   *)
(* form nested in e binds is as it was before the call (so all other names  *)
(* are unchanged when e holds no define form), and Symbol(n) then           *)
(* evaluates to v.                                                          *)
C1_DefineBinds ==
    (op = "eval" /\ WellFormedDefine(input) /\ last.ok) =>
        /\ last.val = eval(DefineValue(input), prev).val
        /\ get(env, DefineName(input)) = last.val
        /\ \A m \in Names(env, prev) \ {DefineName(input)} :
                SameBinding(env, eval(DefineValue(input), prev).env, m)
        /\ \A m \in Names(env, prev) \ ChainNames(input) :
                SameBinding(env, prev, m)
        /\ DefineValue(input)[1] = "Number" => last.val = DefineValue(input)
        /\ DefineValue(input)[1] = "Symbol" =>
                last.val = get(prev, DefineValue(input)[2])
        /\ eval(Symbol(DefineName(input)), env) = Ok(last.val, env)

(* A define has just overwritten a binding of its name with another value, *)
(* while another name that the expression does not bind was bound too.      *)
C1_Witness ==
    /\ op = "eval" /\ WellFormedDefine(input) /\ last.ok
    /\ DefineName(input) \in DOMAIN prev
    /\ prev[DefineName(input)] # last.val
    /\ DOMAIN prev \ ChainNames(input) # {}

(* C2: a closure produced by a lambda form holds the environment in which   *)
(* the form was evaluated, and every closure bound in env still holds the   *)
(* snapshot recorded when it was produced, whatever was defined since.      *)
C2_SnapshotKept ==
    /\ (op = "eval" /\ last.ok /\ WellFormedLambda(Core(input))) =>
            /\ last.val[1] = "Lambda"
            /\ last.val[4] = prev
    /\ \A n \in DOMAIN snaps :
            /\ get(env, n)[1] = "Lambda"
            /\ get(env, n)[4] = snaps[n]

(* A closure bound in env captured a name that has since been bound to      *)
(* another value, and a name has been bound that its snapshot lacks.        *)
C2_Witness ==
    \E n \in DOMAIN snaps :
        /\ \E k \in DOMAIN snaps[n] : get(env, k) # snaps[n][k]
        /\ \E m \in DOMAIN env \ DOMAIN snaps[n] : m # n

(* C3: when eval of a list headed by define returns an error, the           *)
(* environment after the call is the environment before it.                 *)
C3_FailedDefineNoMutation ==
    (op = "eval" /\ IsDefineList(input) /\ ~last.ok) => env = prev

(* A define whose value expression is itself a define failed in a non-empty *)
(* environment.                                                             *)
C3_Witness ==
    /\ op = "eval" /\ ~last.ok
    /\ WellFormedDefine(input)
    /\ WellFormedDefine(DefineValue(input))
    /\ prev # new

(* C4: a non-empty list whose head is neither the symbol define nor the     *)
(* symbol lambda fails with "Invalid expression" and leaves env unchanged;  *)
(* no closure is ever invoked by eval.                                      *)
C4_OtherListsFail ==
    (/\ op = "eval" /\ IsList(input) /\ input[2] # <<>>
     /\ ~IsDefineList(input) /\ ~IsLambdaList(input)) =>
        /\ last = Err("Invalid expression", prev)
        /\ env = prev

(* The head of the list evaluated is a symbol bound to a closure. *)
C4_Witness ==
    /\ op = "eval" /\ IsList(input) /\ input[2] # <<>>
    /\ input[2][1][1] = "Symbol"
    /\ get(prev, input[2][1][2])[1] = "Lambda"
    /\ Len(input[2]) = Len(get(prev, input[2][1][2])[2]) + 1

(* C9: a 3-element lambda form whose second element is a list of symbols    *)
(* succeeds with a closure holding the parameter names, the body verbatim   *)
(* and the environment, and leaves env unchanged: the body is not           *)
(* evaluated.                                                               *)
C9_LambdaBodyNotEvaluated ==
    (op = "eval" /\ WellFormedLambda(input)) =>
        /\ last = Ok(Lambda([i \in 1..Len(input[2][2][2]) |->
                                input[2][2][2][i][2]],
                            LambdaBody(input), prev), prev)
        /\ env = prev

(* The body of the lambda form evaluated is a define form, or a symbol      *)
(* unbound in the non-empty environment.                                    *)
C9_Witness ==
    /\ op = "eval" /\ WellFormedLambda(input)
    /\ prev # new
    /\ \/ WellFormedDefine(LambdaBody(input))
       \/ /\ LambdaBody(input)[1] = "Symbol"
          /\ LambdaBody(input)[2] \notin DOMAIN prev

Keywords == {"define", "lambda"}

(* C10: define can bind the names define and lambda, the bare symbol then   *)
(* evaluates to the bound value, and a list headed by define or lambda is   *)
(* evaluated as the special form whatever the environment binds.            *)
C10_SpecialFormsIgnoreEnv ==
    op = "eval" =>
        /\ (input[1] = "Symbol" /\ input[2] \in Keywords \cap DOMAIN prev) =>
                last = Ok(prev[input[2]], prev)
        /\ (IsDefineList(input) /\ Len(input[2]) # 3) =>
                last = Err("Invalid define expression", prev)
        /\ (IsDefineList(input) /\ Len(input[2]) = 3
                /\ input[2][2][1] # "Symbol") =>
                last = Err("Invalid variable name in define", prev)
        /\ (IsLambdaList(input) /\ Len(input[2]) # 3) =>
                last = Err("Invalid lambda expression", prev)
        /\ WellFormedLambda(input) => (last.ok /\ last.val[1] = "Lambda")
        /\ (WellFormedDefine(input) /\ DefineValue(input)[1] = "Number") =>
                /\ last = Ok(DefineValue(input), env)
                /\ get(env, DefineName(input)) = DefineValue(input)

(* With define and lambda both bound, a define form has just succeeded. *)
C10_Witness ==
    /\ op = "eval" /\ WellFormedDefine(input) /\ last.ok
    /\ Keywords \subseteq DOMAIN prev

-----------------------------------------------------------------------------
(* Properties of parse.  In a state with op = "parse", input is the token   *)
(* sequence and last the result.                                            *)

Opens(tokens, k) == Cardinality({i \in 1..k : tokens[i] = <<"(">>})

Closes(tokens, k) == Cardinality({i \in 1..k : tokens[i] = <<")">>})

(* Token k is a ")" that no earlier unclosed "(" matches. *)
RECURSIVE Unclosed(_, _)
Unclosed(tokens, k) ==
    IF k = 0 THEN 0
    ELSE IF tokens[k] = <<"(">> THEN Unclosed(tokens, k - 1) + 1
    ELSE IF tokens[k] = <<")">> /\ Unclosed(tokens, k - 1) > 0
    THEN Unclosed(tokens, k - 1) - 1
    ELSE Unclosed(tokens, k - 1)

StrayClose(tokens) ==
    \E k \in 1..Len(tokens) :
        tokens[k] = <<")">> /\ Unclosed(tokens, k - 1) = 0

(* C5 as stated: parse fails with "Unexpected ')'" on every token sequence  *)
(* that holds a ")" not matched by an earlier unclosed "(".                 *)
C5_AsStated ==
    (op = "parse" /\ StrayClose(input)) =>
        (~last.ok /\ last.err = "Unexpected ')'")

(* The first "(" is never matched: every non-empty prefix has more "(" than *)
(* ")".                                                                     *)
OpensUnterminated(tokens) ==
    /\ tokens # <<>>
    /\ tokens[1] = <<"(">>
    /\ \A k \in 1..Len(tokens) : Opens(tokens, k) > Closes(tokens, k)

(* C6: parse fails with "Unexpected end of input inside list" on every      *)
(* token sequence that starts with "(" and ends before that "(" is matched, *)
(* and with "Unexpected end of input" on the empty sequence.                *)
C6_UnterminatedList ==
    op = "parse" =>
        /\ OpensUnterminated(input) =>
                (~last.ok /\ last.err = "Unexpected end of input inside list")
        /\ input = <<>> => (~last.ok /\ last.err = "Unexpected end of input")

(* The input ends two lists deep, after a nested list was closed. *)
C6_Witness ==
    /\ op = "parse"
    /\ OpensUnterminated(input)
    /\ Opens(input, Len(input)) - Closes(input, Len(input)) >= 2
    /\ Closes(input, Len(input)) >= 1

-----------------------------------------------------------------------------
(* Property of the read loop *)

(* C7: after a line that gives a parse error or an evaluation error the     *)
(* loop is still running with the environment it had; the environment holds *)
(* exactly the bindings made by the successful defines; the loop has ended  *)
(* exactly when the line read was exit with only whitespace around it.      *)
C7_AsStated ==
    /\ op \in {"parse_error", "eval_error"} => (pc = "running" /\ env = prev)
    /\ env = snaps
    /\ op # "init" => (pc # "running" <=> input.exit)
    /\ pc # "running" => op = "exit"

-----------------------------------------------------------------------------
(* Property of apply.  In a state with op = "apply", input is the pair of   *)
(* the value applied and the argument expressions, prev the caller's        *)
(* environment before the call and env after it.                            *)

IsAtom(expr) == expr[1] \in {"Number", "Boolean", "Symbol"}

AtomValue(expr, e) == IF expr[1] = "Symbol" THEN get(e, expr[2]) ELSE expr

ArgNames(args) == UNION {ChainNames(args[i]) : i \in 1..Len(args)}

LastPosition(params, name) ==
    CHOOSE i \in 1..Len(params) :
        /\ params[i] = name
        /\ \A j \in 1..Len(params) : params[j] = name => j <= i

(* What a symbol denotes in the body of func applied to atoms args. *)
Denotes(func, args, name, e) ==
    IF \E i \in 1..Len(func[2]) : func[2][i] = name
    THEN AtomValue(args[LastPosition(func[2], name)], e)
    ELSE get(func[4], name)

(* C8 as stated: apply fails with "Invalid function application" on a      *)
(* value that is no closure and with "Incorrect number of arguments" on an  *)
(* argument count other than the parameter count; otherwise a symbol of the *)
(* body denotes the value of the argument at its parameter position,        *)
(* evaluated in the caller's environment, or else its binding in the        *)
(* captured snapshot; and nothing the body defines reaches the caller's     *)
(* environment or the closures bound in it.                                 *)
C8_AsStated ==
    op = "apply" =>
        LET func == input[1]
            args == input[2]
        IN  /\ func[1] # "Lambda" =>
                    /\ last = Err("Invalid function application", prev)
                    /\ env = prev
            /\ (func[1] = "Lambda" /\ Len(args) # Len(func[2])) =>
                    /\ last = Err("Incorrect number of arguments", prev)
                    /\ env = prev
            /\ (func[1] = "Lambda" /\ Len(args) = Len(func[2])) =>
                    /\ \A m \in Names(env, prev) \ ArgNames(args) :
                            SameBinding(env, prev, m)
                    /\ (\A i \in 1..Len(args) :
                            /\ IsAtom(args[i])
                            /\ AtomValue(args[i], prev) # NoValue) =>
                          /\ env = prev
                          /\ func[3][1] = "Symbol" =>
                                /\ last.ok <=>
                                    Denotes(func, args, func[3][2], prev)
                                        # NoValue
                                /\ last.val =
                                    Denotes(func, args, func[3][2], prev)
                          /\ (WellFormedDefine(func[3])
                              /\ DefineValue(func[3])[1] = "Symbol") =>
                                /\ last.val =
                                    Denotes(func, args,
                                            DefineValue(func[3])[2], prev)

====
